---- MODULE Spec2Model ----
(***************************************************************************)
(* Model of tools/build_rates.py: the daily builder of buy/sell exchange   *)
(* rates of five Uzbek banks.                                              *)
(*                                                                         *)
(* Text (table cells, command-line arguments, currency codes) is a         *)
(* sequence of one-character strings, so that upper(), isalpha() and the   *)
(* regular expressions of _num are computed character by character.        *)
(* A float is held as an integer number of hundredths.  The cell texts of  *)
(* the model carry at most two fractional digits and are multiples of 0.5, *)
(* so every sum below is exact in binary floating point and the only ties  *)
(* that round(x, 2) meets are exactly representable (Python then rounds    *)
(* half to even).                                                          *)
(*                                                                         *)
(* A fetched page is the sequence of its <tr> rows in document order, each *)
(* row the sequence of the stripped texts of its td/th cells (the HTML     *)
(* parsing itself is BeautifulSoup's).                                     *)
(***************************************************************************)
EXTENDS Integers, Sequences, FiniteSets, TLC

VARIABLES
    argv,     \* sys.argv[1:]
    pc,       \* position of main(): "loop", "adapter", "write", "done"; "scan", "scanned" in SpecScan
    idx,      \* number of adapters of `used` already run by the for loop of main()
    url,      \* inside an adapter: the number of the candidate url it fetches next
    last,     \* inside an adapter: the number of the url whose exception was caught last, 0 for none
    out,      \* the list `out` of main()
    trace,    \* what main() has done so far, in order: calls, sleeps, the fallback, the write
    call,     \* the adapter call of the current loop iteration: what the sites served, what came back
    file,     \* content of public/rates.json
    page,     \* SpecScan: the page handed to the adapters' row scans
    scanned   \* SpecScan: the outcome of the latest scan of `page`

vars == <<argv, pc, idx, url, last, out, trace, call, file, page, scanned>>

----------------------------------------------------------------------------
(* Bounds *)

MaxArgs  == 2    \* command-line arguments after the script name
MaxCells == 4    \* cells of the row of a one-row page
MaxRows  == 3    \* rows of a page of well-formed rows

----------------------------------------------------------------------------
(* Characters and strings *)

LowerCase == <<"a","b","c","d","e","f","g","h","i","j","k","l","m",
               "n","o","p","q","r","s","t","u","v","w","x","y","z">>
UpperCase == <<"A","B","C","D","E","F","G","H","I","J","K","L","M",
               "N","O","P","Q","R","S","T","U","V","W","X","Y","Z">>
DigitChars == <<"0","1","2","3","4","5","6","7","8","9">>

Range(s) == {s[i] : i \in DOMAIN s}
IndexOf(s, c) == CHOOSE i \in DOMAIN s : s[i] = c

LowerSet == Range(LowerCase)
UpperSet == Range(UpperCase)
DigitSet == Range(DigitChars)

\* the upper-case letter of each lower-case letter, the value of each digit
UpperOf == [c \in LowerSet |-> UpperCase[IndexOf(LowerCase, c)]]
ValueOf == [c \in DigitSet |-> IndexOf(DigitChars, c) - 1]

IsDigit(c) == c \in DigitSet
DigitVal(c) == ValueOf[c]

\* str.upper(), one character
UpperChar(c) == IF c \in LowerSet THEN UpperOf[c] ELSE c
\* str.upper()
upper(s) == [i \in DOMAIN s |-> UpperChar(s[i])]
\* str.isalpha(): non-empty and letters only
isalpha(s) == s # <<>> /\ \A i \in DOMAIN s : s[i] \in LowerSet \cup UpperSet

\* ord() of a character of a currency code
Ord(c) == IF c \in UpperSet THEN 64 + IndexOf(UpperCase, c) ELSE 0

\* s < t for Python strings (lexicographic by code point)
RECURSIVE StrLess(_, _)
StrLess(s, t) ==
    IF t = <<>> THEN FALSE
    ELSE IF s = <<>> THEN TRUE
    ELSE IF Ord(Head(s)) # Ord(Head(t)) THEN Ord(Head(s)) < Ord(Head(t))
    ELSE StrLess(Tail(s), Tail(t))

USD == <<"U","S","D">>
EUR == <<"E","U","R">>
RUB == <<"R","U","B">>
GBP == <<"G","B","P">>
JPY == <<"J","P","Y">>
CHF == <<"C","H","F">>
TRY == <<"T","R","Y">>
CNY == <<"C","N","Y">>
KZT == <<"K","Z","T">>

CCYS == {USD, EUR, RUB, GBP, JPY, CHF, TRY, CNY, KZT}
\* the literal {"USD","EUR","RUB"} of the four other adapters, and the
\* tuple ("USD","EUR","RUB") of the final selection
MAJORS == {USD, EUR, RUB}
MajorOrder == <<USD, EUR, RUB>>

----------------------------------------------------------------------------
(* _num: text of a cell -> float (in hundredths) or None *)

None == <<>>
Some(v) == <<v>>

NBSP == "nbsp"   \* the character \xa0

\* x.strip().replace("\xa0"," ").replace(" ", "").replace(",", ".")
RECURSIVE Clean(_)
Clean(x) ==
    IF x = <<>> THEN <<>>
    ELSE IF Head(x) \in {" ", NBSP} THEN Clean(Tail(x))
    ELSE <<IF Head(x) = "," THEN "." ELSE Head(x)>> \o Clean(Tail(x))

\* length of the longest run of digits at the start of s
RECURSIVE DigitRun(_)
DigitRun(s) == IF s # <<>> /\ IsDigit(Head(s)) THEN 1 + DigitRun(Tail(s)) ELSE 0

Drop(s, n) == SubSeq(s, n + 1, Len(s))

\* length of the match of \d+(\.\d+)? at the start of s, 0 if none
DecimalPrefix(s) ==
    LET n == DigitRun(s)
        r == Drop(s, n)
        f == IF r # <<>> /\ Head(r) = "." THEN DigitRun(Tail(r)) ELSE 0
    IN IF n = 0 THEN 0 ELSE IF f > 0 THEN n + 1 + f ELSE n

\* re.search(r"^-?\d+(\.\d+)?$", x)
FullMatch(x) ==
    LET body == IF x # <<>> /\ Head(x) = "-" THEN Tail(x) ELSE x
    IN body # <<>> /\ DecimalPrefix(body) = Len(body)

\* re.search(r"(\d[\d\s]*[.,]\d+|\d+)", x).group(1) on cleaned text: the
\* leftmost digit starts the match; the first alternative wins when the
\* digit run is followed by a point and a digit
RECURSIVE SearchGroup(_)
SearchGroup(x) ==
    IF x = <<>> THEN <<>>
    ELSE IF IsDigit(Head(x)) THEN SubSeq(x, 1, DecimalPrefix(x))
    ELSE SearchGroup(Tail(x))

RECURSIVE DigitsValue(_, _)
DigitsValue(s, acc) ==
    IF s = <<>> THEN acc ELSE DigitsValue(Tail(s), 10 * acc + DigitVal(Head(s)))

\* float(x) of a text -?\d+(\.\d+)?, in hundredths
float(x) ==
    LET neg  == x # <<>> /\ Head(x) = "-"
        body == IF neg THEN Tail(x) ELSE x
        n    == DigitRun(body)
        frac == IF n < Len(body) THEN Drop(body, n + 1) ELSE <<>>
        f2   == SubSeq(frac \o <<"0", "0">>, 1, 2)
        v    == 100 * DigitsValue(SubSeq(body, 1, n), 0) + DigitsValue(f2, 0)
    IN IF neg THEN 0 - v ELSE v

_num(x) ==
    IF x = <<>> THEN None
    ELSE LET y == Clean(x)
         IN IF FullMatch(y) THEN Some(float(y))
            ELSE LET g == SearchGroup(y)
                 IN IF g = <<>> THEN None ELSE Some(float(g))

----------------------------------------------------------------------------
(* Rate, BankRates and the row scan shared by the adapters *)

TODAY == "TODAY"   \* date.today().isoformat(), fixed for the run

Rate(ccy, buy, sell) == [ccy |-> ccy, buy |-> buy, sell |-> sell]
BankRates(bank, date, rates, source_url) ==
    [bank |-> bank, date |-> date, rates |-> rates, source_url |-> source_url]

RECURSIVE Concat(_)
Concat(ss) == IF ss = <<>> THEN <<>> ELSE Head(ss) \o Concat(Tail(ss))

\* next((c.upper() for c in cells if c.upper() in allow), None)
RECURSIVE FirstCcy(_, _)
FirstCcy(cells, allow) ==
    IF cells = <<>> THEN None
    ELSE IF upper(Head(cells)) \in allow THEN upper(Head(cells))
    ELSE FirstCcy(Tail(cells), allow)

\* nums = [_num(c) for c in cells]; nums = [n for n in nums if n is not None]
Nums(cells) ==
    LET raw  == [i \in DOMAIN cells |-> _num(cells[i])]
        kept == SelectSeq(raw, LAMBDA n : n # None)
    IN [i \in DOMAIN kept |-> kept[i][1]]

\* the (buy, sell) positions of a row with at least two parsed numbers
LastTwo(nums)  == <<nums[Len(nums) - 1], nums[Len(nums)]>>
FirstTwo(nums) == <<nums[1], nums[2]>>

hamkorbankPair(nums)   == LastTwo(nums)     \* nums[-2], nums[-1]
\* kapitalbank reading the last two numbers, as hamkorbank does
kapitalbankPairLastTwo(nums) == LastTwo(nums)
kapitalbankPair(nums)  == FirstTwo(nums)    \* nums[0], nums[1]
agrobankPair(nums)     == FirstTwo(nums)
ipakyulibankPair(nums) == FirstTwo(nums)
tbc_bank_uzPair(nums)  == FirstTwo(nums)

\* one iteration of the loop over tr: the Rates the row adds (none or one)
RowRate(cells, ccy, nums, pair) ==
    IF cells = <<>> THEN <<>>                  \* if not cells: continue
    ELSE IF ccy = None THEN <<>>               \* if not ccy: continue
    ELSE IF Len(nums) >= 2 THEN <<Rate(ccy, pair[1], pair[2])>>
    ELSE <<>>

hamkorbankRow(cells) ==
    LET nums == Nums(cells)
    IN RowRate(cells, FirstCcy(cells, CCYS), nums,
               IF Len(nums) >= 2 THEN hamkorbankPair(nums) ELSE <<>>)
kapitalbankRow(cells) ==
    LET nums == Nums(cells)
    IN RowRate(cells, FirstCcy(cells, MAJORS), nums,
               IF Len(nums) >= 2 THEN kapitalbankPair(nums) ELSE <<>>)
agrobankRow(cells) ==
    LET nums == Nums(cells)
    IN RowRate(cells, FirstCcy(cells, MAJORS), nums,
               IF Len(nums) >= 2 THEN agrobankPair(nums) ELSE <<>>)
ipakyulibankRow(cells) ==
    LET nums == Nums(cells)
    IN RowRate(cells, FirstCcy(cells, MAJORS), nums,
               IF Len(nums) >= 2 THEN ipakyulibankPair(nums) ELSE <<>>)
tbc_bank_uzRow(cells) ==
    LET nums == Nums(cells)
    IN RowRate(cells, FirstCcy(cells, MAJORS), nums,
               IF Len(nums) >= 2 THEN tbc_bank_uzPair(nums) ELSE <<>>)

\* the accumulator after the scan of all rows, in scan order
hamkorbankRates(pg)   == Concat([i \in DOMAIN pg |-> hamkorbankRow(pg[i])])
kapitalbankRates(pg)  == Concat([i \in DOMAIN pg |-> kapitalbankRow(pg[i])])
agrobankRates(pg)     == Concat([i \in DOMAIN pg |-> agrobankRow(pg[i])])
ipakyulibankRates(pg) == Concat([i \in DOMAIN pg |-> ipakyulibankRow(pg[i])])
tbc_bank_uzRates(pg)  == Concat([i \in DOMAIN pg |-> tbc_bank_uzRow(pg[i])])

\* keys of the dict `bag` in insertion order
RECURSIVE BagKeys(_, _)
BagKeys(rates, seen) ==
    IF rates = <<>> THEN <<>>
    ELSE IF Head(rates).ccy \in seen THEN BagKeys(Tail(rates), seen)
    ELSE <<Head(rates).ccy>> \o BagKeys(Tail(rates), seen \cup {Head(rates).ccy})

\* dedup = {r.ccy: r for r in rates}: a later Rate replaces an earlier one
DedupKeys(rates) == {rates[i].ccy : i \in DOMAIN rates}
Dedup(rates, c) ==
    rates[CHOOSE i \in DOMAIN rates :
            /\ rates[i].ccy = c
            /\ \A j \in DOMAIN rates : rates[j].ccy = c => j <= i]

\* the deduplicated rates in scan order, without the selection of the majors
MajorUnfiltered(rates) ==
    LET keys == BagKeys(rates, {})
    IN [k \in DOMAIN keys |-> Dedup(rates, keys[k])]

\* major = [dedup[c] for c in ("USD","EUR","RUB") if c in dedup]
Major(rates) ==
    Concat([k \in DOMAIN MajorOrder |->
              IF MajorOrder[k] \in DedupKeys(rates)
              THEN <<Dedup(rates, MajorOrder[k])>> ELSE <<>>])

\* round(sum(values)/len(values), 2) on hundredths: nearest, ties to even
MeanRound2(values) ==
    LET n == Len(values)
        S == LET RECURSIVE Sum(_)
                 Sum(s) == IF s = <<>> THEN 0 ELSE Head(s) + Sum(Tail(s))
             IN Sum(values)
        q == S \div n
        r == S % n
    IN IF 2 * r < n THEN q
       ELSE IF 2 * r > n THEN q + 1
       ELSE IF q % 2 = 0 THEN q ELSE q + 1

\* bag[ccy]
BagOf(rates, ccy) == SelectSeq(rates, LAMBDA r : r.ccy = ccy)

\* the last row of the currency instead of the means
kapitalbankLastRow(arr) == arr[Len(arr)]

\* one Rate per key of bag: the rounded means of its buys and of its sells
kapitalbankAverage(arr) ==
    Rate(arr[1].ccy,
         MeanRound2([i \in DOMAIN arr |-> arr[i].buy]),
         MeanRound2([i \in DOMAIN arr |-> arr[i].sell]))

kapitalbankOut(rates) ==
    LET keys == BagKeys(rates, {})
    IN [k \in DOMAIN keys |-> kapitalbankAverage(BagOf(rates, keys[k]))]

\* sorted(out, key=lambda r: r.ccy): stable insertion sort
RECURSIVE Insert(_, _)
Insert(r, s) ==
    IF s = <<>> THEN <<r>>
    ELSE IF StrLess(r.ccy, Head(s).ccy) THEN <<r>> \o s
    ELSE <<Head(s)>> \o Insert(r, Tail(s))

RECURSIVE sorted(_)
sorted(s) == IF s = <<>> THEN <<>> ELSE Insert(s[Len(s)], sorted(SubSeq(s, 1, Len(s) - 1)))

\* what the body of the try block returns for a fetched page: the rate list
\* of the BankRates it returns, or <<>> when it falls through to the next url
hamkorbankBody(pg)   == Major(hamkorbankRates(pg))
kapitalbankBody(pg)  == sorted(kapitalbankOut(kapitalbankRates(pg)))
agrobankBody(pg)     == Major(agrobankRates(pg))
ipakyulibankBody(pg) == Major(ipakyulibankRates(pg))
tbc_bank_uzBody(pg)  == Major(tbc_bank_uzRates(pg))

----------------------------------------------------------------------------
(* The adapters: the loop over the candidate urls *)

hamkorbankName   == <<"h","a","m","k","o","r","b","a","n","k">>
agrobankName     == <<"a","g","r","o","b","a","n","k">>
kapitalbankName  == <<"k","a","p","i","t","a","l","b","a","n","k">>
ipakyulibankName == <<"i","p","a","k","y","u","l","i","b","a","n","k">>
tbc_bank_uzName  == <<"t","b","c","_","b","a","n","k","_","u","z">>

hamkorbankUrls ==
    << "https://hamkorbank.uz/ru/exchange-rate/",
       "https://hamkorbank.uz/en/exchange-rate/" >>
kapitalbankUrls ==
    << "https://www.kapitalbank.uz/ru/services/exchange-rates-new/",
       "https://www.kapitalbank.uz/ru/services/exchange-rates/",
       "https://www.kapitalbank.uz/en/services/exchange-rates-new/",
       "https://www.kapitalbank.uz/services/exchange-rates-new/" >>
agrobankUrls ==
    << "https://agrobank.uz/ru/person",
       "https://agrobank.uz/ru/individuals",
       "https://agrobank.uz/en/person" >>
ipakyulibankUrls ==
    << "https://ipakyulibank.uz/ru",
       "https://ipakyulibank.uz/ru/exchange-rates",
       "https://ipakyulibank.uz/ru/individuals/exchange-rates",
       "https://ipakyulibank.uz/en" >>
tbc_bank_uzUrls ==
    << "https://tbcbank.uz/ru",
       "https://tbcbank.uz/en" >>

Urls(fn) ==
    CASE fn = hamkorbankName   -> hamkorbankUrls
      [] fn = agrobankName     -> agrobankUrls
      [] fn = kapitalbankName  -> kapitalbankUrls
      [] fn = ipakyulibankName -> ipakyulibankUrls
      [] fn = tbc_bank_uzName  -> tbc_bank_uzUrls

Body(fn, pg) ==
    CASE fn = hamkorbankName   -> hamkorbankBody(pg)
      [] fn = agrobankName     -> agrobankBody(pg)
      [] fn = kapitalbankName  -> kapitalbankBody(pg)
      [] fn = ipakyulibankName -> ipakyulibankBody(pg)
      [] fn = tbc_bank_uzName  -> tbc_bank_uzBody(pg)

\* What a site serves for one url: fetch_html raises (network error, timeout,
\* bad status after the retries), or it returns the page.
FetchRaises == [ok |-> FALSE, page |-> <<>>]
Fetched(pg) == [ok |-> TRUE, page |-> pg]

\* One pass of `for url in urls` on what the url serves: the exception of
\* fetch_html is caught ("except"), a non-empty rate list is returned from
\* inside the loop ("return"), anything else falls through to the next url
\* ("next").
UrlPass(fn, served) ==
    IF ~served.ok THEN [kind |-> "except", rates |-> <<>>]
    ELSE LET b == Body(fn, served.page)
         IN IF b # <<>> THEN [kind |-> "return", rates |-> b]
            ELSE [kind |-> "next", rates |-> <<>>]

\* how an adapter call ends
NoBankRates == BankRates("", "", <<>>, "")
Returns(br) == [ended |-> TRUE, raised |-> FALSE, br |-> br]
Raises      == [ended |-> TRUE, raised |-> TRUE, br |-> NoBankRates]
Running     == [ended |-> FALSE, raised |-> FALSE, br |-> NoBankRates]

BankName(fn) ==
    CASE fn = hamkorbankName   -> "Hamkorbank"
      [] fn = agrobankName     -> "Agrobank"
      [] fn = kapitalbankName  -> "Kapitalbank"
      [] fn = ipakyulibankName -> "Ipak Yuli Bank"
      [] fn = tbc_bank_uzName  -> "TBC Bank Uzbekistan"

\* the return inside the loop, tagged with the first candidate url
ReturnInLoopFirstUrl(fn, rates, u) == Returns(BankRates(BankName(fn), TODAY, rates, Urls(fn)[1]))

\* return BankRates(bank, TODAY, rates, url) inside the loop, at url number u
ReturnInLoop(fn, rates, u) == Returns(BankRates(BankName(fn), TODAY, rates, Urls(fn)[u]))

\* the statements after the loop; lastExc is kapitalbank's `last`: the number
\* of the url whose exception was caught last, 0 for None
hamkorbankAfterLoop(lastExc)   == Returns(BankRates("Hamkorbank", TODAY, <<>>, hamkorbankUrls[1]))
agrobankAfterLoop(lastExc)     == Returns(BankRates("Agrobank", TODAY, <<>>, agrobankUrls[1]))
kapitalbankAfterLoop(lastExc)  ==
    IF lastExc # 0 THEN Raises          \* if last: raise last
    ELSE Returns(BankRates("Kapitalbank", TODAY, <<>>, kapitalbankUrls[1]))
ipakyulibankAfterLoop(lastExc) == Returns(BankRates("Ipak Yuli Bank", TODAY, <<>>, ipakyulibankUrls[1]))
\* the empty result tagged with the url tried last
tbc_bank_uzAfterLoopLastUrl(lastExc) ==
    Returns(BankRates("TBC Bank Uzbekistan", TODAY, <<>>, tbc_bank_uzUrls[Len(tbc_bank_uzUrls)]))
tbc_bank_uzAfterLoop(lastExc)  == Returns(BankRates("TBC Bank Uzbekistan", TODAY, <<>>, tbc_bank_uzUrls[1]))

AfterLoop(fn, lastExc) ==
    CASE fn = hamkorbankName   -> hamkorbankAfterLoop(lastExc)
      [] fn = agrobankName     -> agrobankAfterLoop(lastExc)
      [] fn = kapitalbankName  -> kapitalbankAfterLoop(lastExc)
      [] fn = ipakyulibankName -> ipakyulibankAfterLoop(lastExc)
      [] fn = tbc_bank_uzName  -> tbc_bank_uzAfterLoop(lastExc)

ADAPTERS == <<hamkorbankName, agrobankName, kapitalbankName, ipakyulibankName, tbc_bank_uzName>>

----------------------------------------------------------------------------
(* cbu_reference *)

CbuUrl == "https://cbu.uz/ru/arkhiv-kursov-valyut/json/all/TODAY/"
CbuBank == "CBU (spravochno)"

\* The answer of the endpoint: the request or r.json() raises, or the body
\* is a list of objects; an object is [Ccy, Rate], each None when the key is
\* absent and the text of the value otherwise.
CbuRaises == [ok |-> FALSE, data |-> <<>>]
CbuData(data) == [ok |-> TRUE, data |-> data]

\* x.get("Ccy") is truthy
HasCcy(x) == x.Ccy # None /\ x.Ccy[1] # <<>>
\* float(x["Rate"]) raises: KeyError when the key is absent, ValueError when
\* the text is no number
RateRaises(x) == x.Rate = None \/ ~FullMatch(x.Rate[1])

\* d = {x["Ccy"].upper(): float(x["Rate"]) for x in data if x.get("Ccy")}
CbuKept(data) == SelectSeq(data, HasCcy)
CbuDictRaises(data) == \E i \in DOMAIN CbuKept(data) : RateRaises(CbuKept(data)[i])
CbuDictKeys(data) == {upper(CbuKept(data)[i].Ccy[1]) : i \in DOMAIN CbuKept(data)}
CbuDict(data, c) ==
    LET kept == CbuKept(data)
        i == CHOOSE k \in DOMAIN kept :
                /\ upper(kept[k].Ccy[1]) = c
                /\ \A j \in DOMAIN kept : upper(kept[j].Ccy[1]) = c => j <= k
    IN float(kept[i].Rate[1])

\* wanted: for c in ("USD","EUR","RUB"): if c in d: Rate(c, d[c], d[c])
CbuWanted(data) ==
    Concat([k \in DOMAIN MajorOrder |->
              IF MajorOrder[k] \in CbuDictKeys(data)
              THEN <<Rate(MajorOrder[k], CbuDict(data, MajorOrder[k]), CbuDict(data, MajorOrder[k]))>>
              ELSE <<>>])

\* the BankRates in a one-element tuple, or None
cbu_reference(resp) ==
    IF ~resp.ok THEN None
    ELSE IF CbuDictRaises(resp.data) THEN None
    ELSE IF CbuWanted(resp.data) # <<>>
    THEN Some(BankRates(CbuBank, TODAY, CbuWanted(resp.data), CbuUrl))
    ELSE None

----------------------------------------------------------------------------
(* The inputs of a run *)

DebugFlag == <<"-","-","d","e","b","u","g">>
OtherName == <<"n","b","u">>    \* an alphabetic token that names no adapter

ArgTokens == Range(ADAPTERS) \cup {DebugFlag, OtherName}
Argvs == UNION {[1..n -> ArgTokens] : n \in 0..MaxArgs}

c100 == <<"1","0","0">>
c102 == <<"1","0","2">>
c105 == <<"1","0","5">>
c107 == <<"1","0","7">>
cSum == <<"7"," ","s","u","m">>              \* a number inside other text
cDash == <<"-">>                             \* no value
cEurLower == <<"e","u","r">>
cGrouped == <<"1"," ","2","3","4",",","5","0">>      \* 1 234,50
cGroupedNbsp == <<"1",NBSP,"2","5","0",",","5">>     \* 1 250,5 with a non-breaking space

\* what a site serves to a fetch of main(): an error, a page without a
\* usable row, or a page with rates
PageNoPair == << <<USD, c100>>, <<cDash>> >>
PageRates  == << <<USD, c100, c105>>, <<cEurLower, c102, c107>> >>
FetchOutcomes == {FetchRaises, Fetched(PageNoPair), Fetched(PageRates)}

\* what the reference endpoint answers
CbuItems ==
    { [Ccy |-> Some(USD), Rate |-> Some(<<"1","2","3","4","5",".","0">>)],
      [Ccy |-> Some(<<"u","s","d">>), Rate |-> Some(c100)],
      [Ccy |-> Some(RUB), Rate |-> Some(c105)],
      [Ccy |-> Some(GBP), Rate |-> Some(c107)],
      [Ccy |-> Some(EUR), Rate |-> Some(<<"n","/","a">>)],
      [Ccy |-> Some(EUR), Rate |-> None],
      [Ccy |-> None, Rate |-> None] }
CbuResponses == {CbuRaises} \cup {CbuData(d) : d \in UNION {[1..n -> CbuItems] : n \in 0..2}}

\* the pages of the row scans: every row of up to MaxCells cells, alone on its
\* page, and every table of up to MaxRows rows <currency, buy, sell>, the
\* numbers plain or (for USD) grouped and with a decimal comma
CellTexts == {USD, cEurLower, GBP, c100, c105, cSum, cDash}
OneRowPages == {<<r>> : r \in UNION {[1..n -> CellTexts] : n \in 0..MaxCells}}
TableCcys  == {USD, EUR, RUB, GBP}
TablePairs == {<<c100, c105>>, <<c102, c107>>}
TableRows  == {<<c, p[1], p[2]>> : c \in TableCcys, p \in TablePairs}
                 \cup {<<USD, cGrouped, cGroupedNbsp>>}
TablePages == UNION {[1..n -> TableRows] : n \in 0..MaxRows}
ScanPages  == OneRowPages \cup TablePages

----------------------------------------------------------------------------
(* main *)

\* ONLY = next((arg for arg in sys.argv[1:] if arg.isalpha() and arg != "--debug"), None)
RECURSIVE FirstAlpha(_)
FirstAlpha(args) ==
    IF args = <<>> THEN None
    ELSE IF isalpha(Head(args)) /\ Head(args) # DebugFlag THEN Head(args)
    ELSE FirstAlpha(Tail(args))

\* (ONLY is a reserved word of TLA+)
Only == FirstAlpha(argv)

\* used = [fn for fn in ADAPTERS if (ONLY is None or fn.__name__ == ONLY)]
used == SelectSeq(ADAPTERS, LAMBDA fn : Only = None \/ fn = Only)

\* the dict appended to out for a BankRates
Entry(br) == [bank |-> br.bank, date |-> br.date, rates |-> br.rates, source_url |-> br.source_url]

\* an entry of the trace: a call of adapter fn, its return with br or its
\* exception ("raise"), the sleep, the call of cbu_reference with what it
\* returned (NoBankRates for None), the write of the file
Event(ev, fn, br) == [ev |-> ev, fn |-> fn, br |-> br]

NoCall == [fn |-> <<>>, served |-> <<>>, fetched |-> <<>>, result |-> Running]
NoScan == [fn |-> <<>>, found |-> <<>>, rates |-> <<>>]
\* what a previous run left in public/rates.json
StaleFile == <<Entry(BankRates("Hamkorbank", "YESTERDAY", <<Rate(USD, 1, 2)>>, hamkorbankUrls[1]))>>

Init ==
    /\ argv \in Argvs
    /\ pc = "loop"
    /\ idx = 0
    /\ url = 0
    /\ last = 0
    /\ out = <<>>
    /\ trace = <<>>
    /\ call = NoCall
    /\ file = StaleFile
    /\ page = <<>>
    /\ scanned = NoScan

\* for fn in used: print; try: fn() is entered
CallAdapter ==
    /\ pc = "loop"
    /\ idx < Len(used)
    /\ pc' = "adapter"
    /\ url' = 1
    /\ last' = 0
    /\ call' = [fn |-> used[idx + 1], served |-> <<>>, fetched |-> <<>>, result |-> Running]
    /\ trace' = Append(trace, Event("call", used[idx + 1], NoBankRates))
    /\ UNCHANGED <<argv, idx, out, file, page, scanned>>

\* main() without the test `if br.rates`: an empty result is appended too
AfterCallKeepsEmpty(r) ==
    /\ out' = IF ~r.raised THEN Append(out, Entry(r.br)) ELSE out
    /\ trace' = IF r.raised THEN Append(trace, Event("raise", call.fn, NoBankRates))
                ELSE trace \o <<Event("return", call.fn, r.br), Event("sleep", call.fn, NoBankRates)>>
    /\ idx' = idx + 1
    /\ pc' = "loop"
    /\ url' = 0
    /\ last' = 0

\* main() without its except clause: the exception of an adapter ends the run
AfterCallUncaught(r) ==
    IF r.raised
    THEN pc' = "crashed" /\ UNCHANGED <<out, trace, idx, url, last>>
    ELSE /\ out' = IF r.br.rates # <<>> THEN Append(out, Entry(r.br)) ELSE out
         /\ trace' = trace \o <<Event("return", call.fn, r.br), Event("sleep", call.fn, NoBankRates)>>
         /\ idx' = idx + 1
         /\ pc' = "loop"
         /\ url' = 0
         /\ last' = 0

\* the rest of the loop body of main() once fn() has ended with result r:
\* the append and the sleep inside the try block, or the except clause
AfterCall(r) ==
    /\ out' = IF ~r.raised /\ r.br.rates # <<>> THEN Append(out, Entry(r.br)) ELSE out
    /\ trace' = IF r.raised THEN Append(trace, Event("raise", call.fn, NoBankRates))
                ELSE trace \o <<Event("return", call.fn, r.br), Event("sleep", call.fn, NoBankRates)>>
    /\ idx' = idx + 1
    /\ pc' = "loop"
    /\ url' = 0
    /\ last' = 0

\* the running adapter fetches its next candidate url and goes on until its
\* next fetch; when the adapter ends, main() finishes the loop iteration
Fetch ==
    /\ pc = "adapter"
    /\ \E served \in FetchOutcomes :
       \E pass \in {UrlPass(call.fn, served)} :
       \E log \in {[call EXCEPT !.served = Append(@, served),
                                !.fetched = Append(@, Urls(call.fn)[url])]} :
       \E exc \in {IF pass.kind = "except" THEN url ELSE last} :
         IF pass.kind = "return"
         THEN \E r \in {ReturnInLoop(call.fn, pass.rates, url)} :
                 call' = [log EXCEPT !.result = r] /\ AfterCall(r)
         ELSE IF url < Len(Urls(call.fn))
         THEN /\ call' = log
              /\ url' = url + 1
              /\ last' = exc
              /\ UNCHANGED <<pc, idx, out, trace>>
         ELSE \E r \in {AfterLoop(call.fn, exc)} :
                 call' = [log EXCEPT !.result = r] /\ AfterCall(r)
    /\ UNCHANGED <<argv, file, page, scanned>>

\* the fallback without its condition `if not out`
FallbackUnconditional ==
    /\ pc = "loop"
    /\ idx = Len(used)
    /\ \E resp \in CbuResponses :
         LET ref == cbu_reference(resp)
         IN /\ out' = IF ref # None THEN Append(out, Entry(ref[1])) ELSE out
            /\ trace' = Append(trace, Event("cbu_reference", <<>>,
                                            IF ref # None THEN ref[1] ELSE NoBankRates))
    /\ pc' = "write"
    /\ call' = NoCall
    /\ UNCHANGED <<argv, idx, url, last, file, page, scanned>>

\* if not out: ref = cbu_reference(); if ref: out.append(...)
Fallback ==
    /\ pc = "loop"
    /\ idx = Len(used)
    /\ out = <<>>
    /\ \E resp \in CbuResponses :
         LET ref == cbu_reference(resp)
         IN /\ out' = IF ref # None THEN Append(out, Entry(ref[1])) ELSE out
            /\ trace' = Append(trace, Event("cbu_reference", <<>>,
                                            IF ref # None THEN ref[1] ELSE NoBankRates))
    /\ pc' = "write"
    /\ call' = NoCall
    /\ UNCHANGED <<argv, idx, url, last, file, page, scanned>>

\* if not out: is false
SkipFallback ==
    /\ pc = "loop"
    /\ idx = Len(used)
    /\ out # <<>>
    /\ pc' = "write"
    /\ call' = NoCall
    /\ UNCHANGED <<argv, idx, url, last, out, trace, file, page, scanned>>

\* os.makedirs; open(..., "w"); json.dump(out, f); main() returns
Write ==
    /\ pc = "write"
    /\ file' = out
    /\ trace' = Append(trace, Event("write", <<>>, NoBankRates))
    /\ pc' = "done"
    /\ UNCHANGED <<argv, idx, url, last, out, call, page, scanned>>

Next == CallAdapter \/ Fetch \/ Fallback \/ SkipFallback \/ Write

Spec == Init /\ [][Next]_vars

\* main() runs to its end: every request of the run ends (the fetches and
\* the reference request carry timeouts), so no step waits forever
FairSpec == Spec /\ WF_vars(Next)

----------------------------------------------------------------------------
(* The row scans of the adapters, applied to one page *)

Found(fn, pg) ==
    CASE fn = hamkorbankName   -> hamkorbankRates(pg)
      [] fn = agrobankName     -> agrobankRates(pg)
      [] fn = kapitalbankName  -> kapitalbankRates(pg)
      [] fn = ipakyulibankName -> ipakyulibankRates(pg)
      [] fn = tbc_bank_uzName  -> tbc_bank_uzRates(pg)

InitScan ==
    /\ page \in ScanPages
    /\ pc = "scan"
    /\ scanned = NoScan
    /\ argv = <<>>
    /\ idx = 0
    /\ url = 0
    /\ last = 0
    /\ out = <<>>
    /\ trace = <<>>
    /\ call = NoCall
    /\ file = StaleFile

\* the body of the try block of adapter fn on the fetched page
Scan(fn) ==
    /\ pc = "scan"
    /\ scanned' = [fn |-> fn, found |-> Found(fn, page), rates |-> Body(fn, page)]
    /\ pc' = "scanned"
    /\ UNCHANGED <<argv, idx, url, last, out, trace, call, file, page>>

NextScan == \E fn \in Range(ADAPTERS) : Scan(fn)

SpecScan == InitScan /\ [][NextScan]_vars

----------------------------------------------------------------------------
(* Properties of a run of main() *)

Positions(ev) == {k \in DOMAIN trace : trace[k].ev = ev}

\* the entries of the adapters that returned rates, in the order of their return
Successful ==
    LET rets == SelectSeq(trace, LAMBDA e : e.ev = "return" /\ e.br.rates # <<>>)
    IN [i \in DOMAIN rets |-> Entry(rets[i].br)]

\* the entry of the reference fallback, when it was called and returned one
Reference ==
    LET refs == SelectSeq(trace, LAMBDA e : e.ev = "cbu_reference" /\ e.br # NoBankRates)
    IN [i \in DOMAIN refs |-> Entry(refs[i].br)]

\* C1: whatever the sites and the reference endpoint answer (fetches that
\* raise, pages without usable rows, an adapter that raises, a fallback that
\* fails), main() reaches the write exactly once and ends, and the file then
\* holds exactly the entries of the successful adapters followed by the
\* fallback's entry if there is one: the empty array when there is none.
C1_WritesOnceAndEnds ==
    /\ <>(pc = "done")
    /\ [](/\ Cardinality(Positions("write")) <= 1
          /\ pc = "done" =>
               /\ Cardinality(Positions("write")) = 1
               /\ file = Successful \o Reference
               /\ (Successful = <<>> /\ Reference = <<>>) => file = <<>>)

\* total failure: an adapter raised, nothing was collected, the fallback
\* returned nothing, and the empty array was written
C1_Witness ==
    /\ pc = "done"
    /\ Positions("raise") # {}
    /\ Positions("cbu_reference") # {}
    /\ Successful = <<>> /\ Reference = <<>>
    /\ Len(used) = 5
    /\ file = <<>>

\* C2: cbu_reference is called at most once, only when every adapter of
\* `used` has been called and has ended and none of them returned rates;
\* once the loop is over it has been called exactly when nothing was
\* collected; and no output holds the reference entry next to another entry.
C2_FallbackIffNothingCollected ==
    /\ Cardinality(Positions("cbu_reference")) <= 1
    /\ \A k \in Positions("cbu_reference") :
         /\ Cardinality({j \in Positions("call") : j < k}) = Len(used)
         /\ Cardinality({j \in Positions("return") \cup Positions("raise") : j < k}) = Len(used)
         /\ \A j \in Positions("call") : j < k
         /\ \A j \in Positions("return") : trace[j].br.rates = <<>>
    /\ pc \in {"write", "done"} => (Positions("cbu_reference") # {} <=> Successful = <<>>)
    /\ \A content \in {out, file} :
         (\E i \in DOMAIN content : content[i].bank = CbuBank) => Len(content) = 1

\* all five adapters came back empty-handed and the file holds the reference entry alone
C2_Witness ==
    /\ pc = "done"
    /\ Len(used) = 5
    /\ Cardinality(Positions("return")) + Cardinality(Positions("raise")) = 5
    /\ Positions("cbu_reference") # {}
    /\ Len(file) = 1 /\ file[1].bank = CbuBank

\* the adapter call of the current iteration has ended and every one of its
\* candidate urls was fetched and raised
AllFetchesRaised ==
    /\ call.result.ended
    /\ Len(call.served) = Len(Urls(call.fn))
    /\ \A i \in DOMAIN call.served : call.served[i] = FetchRaises

ReturnsEmptyWithFirstUrl ==
    /\ ~call.result.raised
    /\ call.result.br.rates = <<>>
    /\ call.result.br.source_url = Urls(call.fn)[1]

\* C3, as claimed: each of the five adapters, when the fetch of every
\* candidate url raises, does not raise but returns a BankRates with an empty
\* rate list and its first candidate url as source_url.
C3_Claim_EveryAdapterReturnsEmpty ==
    AllFetchesRaised => ReturnsEmptyWithFirstUrl

\* C3, amended: hamkorbank, agrobank, ipakyulibank and tbc_bank_uz, when the
\* fetch of every candidate url raises, do not raise but return a BankRates
\* with an empty rate list and the first candidate url as source_url;
\* kapitalbank raises instead (it re-raises the exception it caught last),
\* and main() records the exception and goes on.
C3_FourReturnEmptyKapitalbankRaises ==
    AllFetchesRaised =>
        IF call.fn = kapitalbankName
        THEN /\ call.result.raised
             /\ trace[Len(trace)] = Event("raise", kapitalbankName, NoBankRates)
             /\ pc = "loop" /\ idx = Cardinality(Positions("call"))
        ELSE ReturnsEmptyWithFirstUrl

\* kapitalbank raised earlier in the run, and every url of tbc_bank_uz has
\* just raised
C3_Witness ==
    /\ AllFetchesRaised
    /\ call.fn = tbc_bank_uzName
    /\ call.fetched = tbc_bank_uzUrls
    /\ \E k \in Positions("raise") : trace[k].fn = kapitalbankName

\* C5, as claimed: between any two consecutive adapter invocations the
\* 1-second pause occurs, whether the earlier adapter returned rates,
\* returned an empty result or raised.
C5_Claim_SleepBetweenAdapters ==
    \A i, j \in Positions("call") :
        i < j => \E k \in Positions("sleep") : i < k /\ k < j

\* the arguments that are not the --debug flag
Positional(args) == SelectSeq(args, LAMBDA a : a # DebugFlag)

AdapterNumber(fn) == CHOOSE n \in DOMAIN ADAPTERS : ADAPTERS[n] = fn

\* C6, as claimed: adapters are invoked in the order of ADAPTERS; without a
\* positional name all five are run; and for each of the five adapters, its
\* function name as the positional argument makes main() invoke that
\* adapter and no other.
C6_Claim_NameSelectsThatAdapter ==
    /\ \A i, j \in Positions("call") :
         i < j => AdapterNumber(trace[i].fn) < AdapterNumber(trace[j].fn)
    /\ (Positional(argv) = <<>> /\ pc = "done") =>
         {trace[k].fn : k \in Positions("call")} = Range(ADAPTERS)
    /\ \A name \in Range(ADAPTERS) :
         Positional(argv) = <<name>> =>
            /\ \A k \in Positions("call") : trace[k].fn = name
            /\ pc = "done" => Cardinality(Positions("call")) = 1

\* of the pages served in a run, the one every adapter finds rates in
Usable(served) == served = Fetched(PageRates)

\* C9: an adapter fetches its candidate urls in list order, moves on after a
\* url that raised or whose page gave no rate, and stops at the first url
\* that is fetched and gives rates: nothing is fetched after it, and the
\* source_url of a non-empty BankRates is that url.
C9_StopsAtFirstUsableUrl ==
    call.fn # <<>> =>
        LET urls == Urls(call.fn)
            n    == Len(call.fetched)
        IN /\ n <= Len(urls)
           /\ call.fetched = SubSeq(urls, 1, n)
           /\ Len(call.served) = n
           /\ \A i \in 1..(n - 1) : ~Usable(call.served[i])
           /\ ~call.result.ended =>
                /\ n < Len(urls) /\ url = n + 1
                /\ \A i \in 1..n : ~Usable(call.served[i])
           /\ call.result.ended =>
                /\ n >= 1
                /\ Usable(call.served[n]) <=>
                     (~call.result.raised /\ call.result.br.rates # <<>>)
                /\ Usable(call.served[n]) => call.result.br.source_url = urls[n]
                /\ ~Usable(call.served[n]) => n = Len(urls)

\* kapitalbank: the first url raised, the second served a page without
\* rates, the third served rates and is the source; the fourth was not fetched
C9_Witness ==
    /\ call.fn = kapitalbankName
    /\ call.result.ended
    /\ call.served = <<FetchRaises, Fetched(PageNoPair), Fetched(PageRates)>>
    /\ call.fetched = SubSeq(kapitalbankUrls, 1, 3)
    /\ call.result.br.source_url = kapitalbankUrls[3]

BankOrder == <<"Hamkorbank", "Agrobank", "Kapitalbank", "Ipak Yuli Bank", "TBC Bank Uzbekistan">>
BankNumber(bank) == CHOOSE n \in DOMAIN BankOrder : BankOrder[n] = bank

WellFormedOutput(content) ==
    /\ \A i \in DOMAIN content :
         /\ content[i].rates # <<>>
         /\ \A k \in DOMAIN content[i].rates :
              /\ content[i].rates[k].ccy \in {USD, EUR, RUB}
              /\ content[i].rates[k].buy \in Int
              /\ content[i].rates[k].sell \in Int
              /\ content[i].bank = CbuBank => content[i].rates[k].buy = content[i].rates[k].sell
         /\ content[i].bank \in Range(BankOrder) \cup {CbuBank}
    /\ \A i, j \in DOMAIN content :
         (i < j /\ content[i].bank # CbuBank /\ content[j].bank # CbuBank)
            => BankNumber(content[i].bank) < BankNumber(content[j].bank)

\* C10: every entry of the output has a non-empty rate list; every rate has
\* a currency of USD, EUR, RUB and a number for buy and for sell; the banks
\* appear at most once and in adapter order; a reference entry has buy equal
\* to sell; and a page whose rows have fewer than two parsed numbers gives
\* no rate.
C10_OutputWellFormed ==
    /\ WellFormedOutput(out)
    /\ pc = "done" => WellFormedOutput(file)
    /\ (call.result.ended /\ call.served[Len(call.served)] = Fetched(PageNoPair))
          => (~call.result.raised => call.result.br.rates = <<>>)

\* a run in which some adapters gave nothing and the others are in the file
C10_Witness ==
    /\ pc = "done"
    /\ Len(file) = 3
    /\ \E k \in Positions("return") : trace[k].br.rates = <<>>
    /\ \E k \in Positions("raise") : TRUE

----------------------------------------------------------------------------
(* Properties of the row scans *)

\* the currency codes an adapter recognizes in a row
Recognized(fn) == IF fn = hamkorbankName THEN CCYS ELSE {USD, EUR, RUB}

\* the rows of the page with a recognized currency code and at least two
\* cells that parse as numbers, in scan order
Qualifying(fn) ==
    SelectSeq(page, LAMBDA cells :
        FirstCcy(cells, Recognized(fn)) # None /\ Len(Nums(cells)) >= 2)

RowCcy(fn, cells) == FirstCcy(cells, Recognized(fn))

LastTwoRate(fn, cells) ==
    LET nums == Nums(cells)
    IN Rate(RowCcy(fn, cells), nums[Len(nums) - 1], nums[Len(nums)])
FirstTwoRate(fn, cells) ==
    LET nums == Nums(cells)
    IN Rate(RowCcy(fn, cells), nums[1], nums[2])

TakesLastTwo(fn) ==
    LET rows == Qualifying(fn)
    IN scanned.found = [k \in DOMAIN rows |-> LastTwoRate(fn, rows[k])]
TakesFirstTwo(fn) ==
    LET rows == Qualifying(fn)
    IN scanned.found = [k \in DOMAIN rows |-> FirstTwoRate(fn, rows[k])]

\* C4, as claimed: of a row with a recognized currency code and at least two
\* parsed numbers, Hamkorbank and Kapitalbank take the last two parsed
\* numbers as (buy, sell), and Agrobank, Ipak Yuli Bank and TBC Bank the
\* first two.
C4_Claim_KapitalbankTakesLastTwo ==
    /\ scanned.fn \in {hamkorbankName, kapitalbankName} => TakesLastTwo(scanned.fn)
    /\ scanned.fn \in {agrobankName, ipakyulibankName, tbc_bank_uzName} => TakesFirstTwo(scanned.fn)

\* C4, amended: of a row with a recognized currency code and at least two
\* parsed numbers, Hamkorbank takes the last two parsed numbers as (buy,
\* sell), and Kapitalbank, Agrobank, Ipak Yuli Bank and TBC Bank take the
\* first two; on a row with three or more parsed numbers whose first two
\* differ from its last two, Hamkorbank's pair is not the pair of the other
\* four.
C4_OnlyHamkorbankTakesLastTwo ==
    /\ scanned.fn = hamkorbankName => TakesLastTwo(scanned.fn)
    /\ scanned.fn \in {kapitalbankName, agrobankName, ipakyulibankName, tbc_bank_uzName}
          => TakesFirstTwo(scanned.fn)
    /\ scanned.fn # <<>> =>
         LET rows == Qualifying(scanned.fn)
         IN \A k \in DOMAIN rows :
               LET nums == Nums(rows[k])
               IN (Len(nums) >= 3 /\ FirstTwo(nums) # LastTwo(nums))
                    => (scanned.found[k] = FirstTwoRate(scanned.fn, rows[k])
                          <=> scanned.fn # hamkorbankName)

\* kapitalbank has scanned a row with three parsed numbers and kept the first two
C4_Witness ==
    /\ scanned.fn = kapitalbankName
    /\ page = << <<USD, c100, c105, cSum>> >>
    /\ scanned.found = <<Rate(USD, 10000, 10500)>>
    /\ scanned.rates = <<Rate(USD, 10000, 10500)>>

RECURSIVE SumSeq(_)
SumSeq(s) == IF s = <<>> THEN 0 ELSE Head(s) + SumSeq(Tail(s))

Abs(x) == IF x < 0 THEN 0 - x ELSE x

\* the qualifying rows of the page that carry currency c
RowsOf(fn, c) == SelectSeq(Qualifying(fn), LAMBDA cells : RowCcy(fn, cells) = c)

RatesOf(c) == SelectSeq(scanned.rates, LAMBDA r : r.ccy = c)

\* v is the mean of the values, rounded to the nearest hundredth
IsRoundedMean(v, values) == 2 * Abs(Len(values) * v - SumSeq(values)) <= Len(values)

\* C7: when a page has several qualifying rows for one currency, Hamkorbank,
\* Agrobank, Ipak Yuli Bank and TBC Bank emit for it the pair of the last
\* such row in scan order; Kapitalbank emits one Rate whose buy is the mean
\* of the buys of those rows and whose sell is the mean of their sells, each
\* rounded to two decimals: EUR rows (100, 105) and (102, 107) give 101.0
\* and 106.0.
C7_LastRowWinsKapitalbankAverages ==
    /\ scanned.fn \in {hamkorbankName, agrobankName, ipakyulibankName, tbc_bank_uzName} =>
         \A c \in {USD, EUR, RUB} :
            LET rows == RowsOf(scanned.fn, c)
            IN rows # <<>> =>
                 RatesOf(c) = << IF scanned.fn = hamkorbankName
                                 THEN LastTwoRate(scanned.fn, rows[Len(rows)])
                                 ELSE FirstTwoRate(scanned.fn, rows[Len(rows)]) >>
    /\ scanned.fn = kapitalbankName =>
         /\ \A c \in {USD, EUR, RUB} :
              LET rows == RowsOf(scanned.fn, c)
              IN rows # <<>> =>
                   /\ Len(RatesOf(c)) = 1
                   /\ IsRoundedMean(RatesOf(c)[1].buy,
                                    [i \in DOMAIN rows |-> Nums(rows[i])[1]])
                   /\ IsRoundedMean(RatesOf(c)[1].sell,
                                    [i \in DOMAIN rows |-> Nums(rows[i])[2]])
         /\ page = << <<EUR, c100, c105>>, <<EUR, c102, c107>> >>
               => scanned.rates = <<Rate(EUR, 10100, 10600)>>

\* kapitalbank has averaged three USD rows: (100 + 102 + 1234.5) / 3 = 478.83
\* and (105 + 107 + 1250.5) / 3 = 487.5
C7_Witness ==
    /\ scanned.fn = kapitalbankName
    /\ page = << <<USD, c100, c105>>, <<USD, c102, c107>>, <<USD, cGrouped, cGroupedNbsp>> >>
    /\ scanned.rates = <<Rate(USD, 47883, 48750)>>

\* the currencies of s appear in the order of `order`, each at most once
InOrder(s, order) ==
    /\ \A k \in DOMAIN s : \E n \in DOMAIN order : order[n] = s[k].ccy
    /\ \A i, j \in DOMAIN s :
         i < j => (CHOOSE n \in DOMAIN order : order[n] = s[i].ccy)
                    < (CHOOSE n \in DOMAIN order : order[n] = s[j].ccy)

\* C8: the rate list of Hamkorbank, Agrobank, Ipak Yuli Bank and TBC Bank
\* holds currencies of USD, EUR, RUB only, each at most once, in the order
\* USD, EUR, RUB, whatever else was scraped; Kapitalbank's holds each
\* currency it found once, in alphabetical order EUR, RUB, USD.
C8_MajorsInFixedOrder ==
    /\ scanned.fn \in {hamkorbankName, agrobankName, ipakyulibankName, tbc_bank_uzName} =>
         /\ InOrder(scanned.rates, <<USD, EUR, RUB>>)
         /\ \A c \in {USD, EUR, RUB} : RowsOf(scanned.fn, c) # <<>> => RatesOf(c) # <<>>
    /\ scanned.fn = kapitalbankName =>
         /\ InOrder(scanned.rates, <<EUR, RUB, USD>>)
         /\ \A c \in {USD, EUR, RUB} : RowsOf(scanned.fn, c) # <<>> => RatesOf(c) # <<>>

\* hamkorbank has scanned GBP, RUB and USD rows, in that order, and emits USD, RUB
C8_Witness ==
    /\ scanned.fn = hamkorbankName
    /\ page = << <<GBP, c100, c105>>, <<RUB, c102, c107>>, <<USD, c100, c105>> >>
    /\ \E k \in DOMAIN scanned.found : scanned.found[k].ccy = GBP
    /\ scanned.rates = <<Rate(USD, 10000, 10500), Rate(RUB, 10200, 10700)>>

=============================================================================
